---- MODULE Spec2Model ----
(***************************************************************************)
(* Model of internal/server/websocket.go: one SocketClient, its option     *)
(* resolution (NewSocket / defaultOption), the synchronized write path     *)
(* (SendMessage), the read loop (ReadPump) and the heartbeat goroutine.    *)
(* Durations are whole seconds.                                            *)
(***************************************************************************)
EXTENDS Integers, Sequences, FiniteSets, TLC

\* ------------------------------------------------------------------ bounds
MaxOpts == 2        \* longest mutator list given to NewSocket under SpecOpt
MaxProbes == 3      \* heartbeat ticks explored
MaxFrames == 2      \* frames ReadMessage delivers before only errors remain
MaxTime == 1        \* the clock runs 0..MaxTime
NumSenders == 1     \* application goroutines calling SendMessage
MaxLongProbes == 5  \* heartbeat ticks explored under SpecProbes

\* ------------------------------------------------------- program constants
DefaultPingPeriod == 20
DefaultWriteDeadline == 35
DefaultWriteReadBufferSize == 20480
DefaultHeartbeatFailMaxTimes == 4
DefaultReadDeadline == 30

\* A time.Time: the zero value time.Time{} means "no deadline".
ZeroTime == [zero |-> TRUE, at |-> 0]
At(t) == [zero |-> FALSE, at |-> t]

\* ------------------------------------------------------------- SocketOption
IntFields == {"writeReadBufferSize", "heartbeatFailMaxTimes", "writeDeadline",
              "readDeadline", "pingPeriod"}

\* sOpt := &SocketOption{}
ZeroOption ==
    [writeReadBufferSize |-> 0, heartbeatFailMaxTimes |-> 0, writeDeadline |-> 0,
     readDeadline |-> 0, pingPeriod |-> 0, pingMsg |-> ""]

\* A SocketOptionFunc is the field it assigns and the value it assigns
\* (n for the integer fields, s for pingMsg).
WithWriteReadBufferSize(size) == [field |-> "writeReadBufferSize", n |-> size, s |-> ""]
WithReadDeadline(deadline) == [field |-> "readDeadline", n |-> deadline, s |-> ""]
WithHeartbeatFailMaxTimes(k) == [field |-> "heartbeatFailMaxTimes", n |-> k, s |-> ""]
WithWriteDeadline(writeDeadline) == [field |-> "writeDeadline", n |-> writeDeadline, s |-> ""]
WithPingPeriod(pingPeriod) == [field |-> "pingPeriod", n |-> pingPeriod, s |-> ""]
WithPingMsg(pingMsg) == [field |-> "pingMsg", n |-> 0, s |-> pingMsg]

\* f(opt)
apply(f, opt) ==
    IF f.field = "pingMsg" THEN [opt EXCEPT !.pingMsg = f.s]
    ELSE [opt EXCEPT ![f.field] = f.n]

\* for _, opt := range opts { opt.apply(sOpt) }
RECURSIVE applyAll(_, _)
applyAll(opts, opt) ==
    IF opts = <<>> THEN opt
    ELSE applyAll(Tail(opts), apply(Head(opts), opt))

defaultOption(o) ==
    LET o1 == IF o.pingPeriod = 0
              THEN [o EXCEPT !.pingPeriod = DefaultPingPeriod] ELSE o
        o2 == IF o1.writeDeadline = 0
              THEN [o1 EXCEPT !.writeDeadline = DefaultWriteDeadline] ELSE o1
        o3 == IF o2.writeReadBufferSize = 0
              THEN [o2 EXCEPT !.writeReadBufferSize = DefaultWriteReadBufferSize] ELSE o2
        o4 == IF o3.heartbeatFailMaxTimes = 0
              THEN [o3 EXCEPT !.heartbeatFailMaxTimes = DefaultHeartbeatFailMaxTimes] ELSE o3
        o5 == IF o4.readDeadline = 0
              THEN [o4 EXCEPT !.readDeadline = DefaultReadDeadline] ELSE o4
    IN  o5

\* ------------------------------------------------------------------- inputs
\* Mutator lists a caller may pass to NewSocket (option resolution alone).
OptVals == {0, 1, 2}
Mutators ==
    {WithWriteReadBufferSize(v) : v \in OptVals}
    \cup {WithReadDeadline(v) : v \in OptVals \cup {-1}}
    \cup {WithHeartbeatFailMaxTimes(v) : v \in OptVals \cup {-1}}
    \cup {WithWriteDeadline(v) : v \in OptVals}
    \cup {WithPingPeriod(v) : v \in OptVals}
    \cup {WithPingMsg(m) : m \in {"", "ping"}}

SeqsUpTo(S, n) == UNION {[1..k -> S] : k \in 0..n}
OptSeqs == SeqsUpTo(Mutators, MaxOpts)

\* Mutator lists of the sessions whose goroutines are explored.
SessionOpts ==
    {<<>>,
     <<WithReadDeadline(0), WithHeartbeatFailMaxTimes(2)>>,
     <<WithReadDeadline(1), WithHeartbeatFailMaxTimes(1)>>,
     <<WithReadDeadline(-1), WithHeartbeatFailMaxTimes(-1)>>}

AppSenders == 1..NumSenders
Heartbeat == 0                       \* the heartbeat goroutine as a SendMessage caller
Callers == {Heartbeat} \cup AppSenders

VARIABLES
    client,              \* what NewSocket returned: "none" (not called), "client", "err"
    opts,                \* the mutator list NewSocket was given
    option,              \* SocketClient.option
    Conn,                \* SocketClient.Conn: "nil", "open", "closed"
    Send,                \* SocketClient.Send: [nil, cap]
    mutex,               \* the embedded RWMutex: the callers holding the write lock
    spc,                 \* per SendMessage caller: the statement it is at
    serr,                \* per caller: the error its current/last SendMessage returns
    attempts,            \* per caller: WriteMessage calls made by its current/last call
    connReadDeadline,    \* the connection's read deadline
    pongHandler,         \* TRUE once SetPongHandler installed the closure
    ponged,              \* TRUE once the closure has processed a pong
    now,                 \* time.Now()
    hpc,                 \* the heartbeat goroutine's position
    HeartbeatFailTimes,  \* SocketClient.HeartbeatFailTimes
    probeLog,            \* outcome of every completed probe, oldest first
    probeUnwritten,      \* TRUE once a probe returned before its WriteMessage call
    rpc,                 \* ReadPump's position
    recvd,               \* frames ReadMessage has returned, oldest first
    panicking,           \* TRUE while a panic unwinds / was recovered in ReadPump
    calls,               \* handler calls made, oldest first
    executing            \* handler callbacks that have begun and not yet returned

cfgVars == <<client, opts, option, Conn, Send>>
sendVars == <<mutex, spc, serr, attempts>>
hbVars == <<hpc, HeartbeatFailTimes, probeLog, probeUnwritten>>
readVars == <<rpc, recvd, panicking, calls, executing>>
dlVars == <<connReadDeadline, pongHandler, ponged>>
vars == <<cfgVars, sendVars, hbVars, readVars, dlVars, now>>

Init ==
    /\ client = "none"
    /\ opts = <<>>
    /\ option = ZeroOption
    /\ Conn = "nil"
    /\ Send = [nil |-> TRUE, cap |-> 0]
    /\ mutex = {}
    /\ spc = [c \in Callers |-> "idle"]
    /\ serr = [c \in Callers |-> "nil"]
    /\ attempts = [c \in Callers |-> 0]
    /\ connReadDeadline = ZeroTime
    /\ pongHandler = FALSE
    /\ ponged = FALSE
    /\ now = 0
    /\ hpc = "none"
    /\ HeartbeatFailTimes = 0
    /\ probeLog = <<>>
    /\ probeUnwritten = FALSE
    /\ rpc = "idle"
    /\ recvd = <<>>
    /\ panicking = FALSE
    /\ calls = <<>>
    /\ executing = 0

\* upGrader with "go s.heartbeat()" moved above the Upgrade error check.
upGraderStartsFirst(upgraded) ==
    /\ hpc' = "start"
    /\ IF upgraded
       THEN /\ Conn' = "open"
            /\ Send' = [nil |-> FALSE, cap |-> option'.writeReadBufferSize]
            /\ client' = "client"
       ELSE /\ client' = "err"
            /\ UNCHANGED <<Conn, Send>>

\* ---------------------------------------------------------------- NewSocket
\* upGrader: on success store the connection, make the Send channel and start
\* the heartbeat goroutine; on failure return the error and do none of it.
upGrader(upgraded) ==
    IF upgraded
    THEN /\ Conn' = "open"
         /\ Send' = [nil |-> FALSE, cap |-> option'.writeReadBufferSize]
         /\ hpc' = "start"
         /\ client' = "client"
    ELSE /\ client' = "err"
         /\ UNCHANGED <<Conn, Send, hpc>>

NewSocket(o, upgraded) ==
    /\ client = "none"
    /\ opts' = o
    /\ option' = defaultOption(applyAll(o, ZeroOption))
    /\ upGrader(upgraded)
    /\ UNCHANGED <<sendVars, HeartbeatFailTimes, probeLog, probeUnwritten, readVars, dlVars, now>>

\* -------------------------------------------------------------- SendMessage
\* A caller enters SendMessage and blocks on s.Lock().
Call(c) ==
    /\ spc[c] = "idle"
    /\ spc' = [spc EXCEPT ![c] = "Lock"]
    /\ serr' = [serr EXCEPT ![c] = "nil"]
    /\ attempts' = [attempts EXCEPT ![c] = 0]

\* Application code calls SendMessage on the client NewSocket returned.
AppSend(c) ==
    /\ client = "client"
    /\ Call(c)
    /\ UNCHANGED <<cfgVars, mutex, hbVars, readVars, dlVars, now>>

\* Lock taken as a shared lock (s.RLock()): it does not wait for other holders.
LockShared(c) ==
    /\ spc[c] = "Lock"
    /\ mutex' = mutex \cup {c}
    /\ spc' = [spc EXCEPT ![c] = "SetWriteDeadline"]
    /\ UNCHANGED <<cfgVars, serr, attempts, hbVars, readVars, dlVars, now>>

\* s.Lock(): granted only while nobody holds the lock.
Lock(c) ==
    /\ spc[c] = "Lock"
    /\ mutex = {}
    /\ mutex' = {c}
    /\ spc' = [spc EXCEPT ![c] = "SetWriteDeadline"]
    /\ UNCHANGED <<cfgVars, serr, attempts, hbVars, readVars, dlVars, now>>

\* SetWriteDeadline's error kept but not returned: the write is still made.
SetWriteDeadlineThenWrite(c, ok) ==
    /\ spc[c] = "SetWriteDeadline"
    /\ serr' = IF ok THEN serr ELSE [serr EXCEPT ![c] = "deadlineErr"]
    /\ spc' = [spc EXCEPT ![c] = "WriteMessage"]
    /\ probeUnwritten' = probeUnwritten
    /\ UNCHANGED <<cfgVars, mutex, attempts, hpc, HeartbeatFailTimes, probeLog,
                   readVars, dlVars, now>>

\* s.Conn.SetWriteDeadline(time.Now().Add(s.option.writeDeadline)): the deadline
\* is kept inside the connection, where only its writes consult it (their
\* outcome is chosen in WriteMessage); an error returns at once, the deferred
\* Unlock being next.
SetWriteDeadline(c, ok) ==
    /\ spc[c] = "SetWriteDeadline"
    /\ IF ok
       THEN /\ spc' = [spc EXCEPT ![c] = "WriteMessage"]
            /\ UNCHANGED serr
       ELSE /\ serr' = [serr EXCEPT ![c] = "deadlineErr"]
            /\ spc' = [spc EXCEPT ![c] = "Unlock"]
    /\ probeUnwritten' = (probeUnwritten \/ (c = Heartbeat /\ ~ok))
    /\ UNCHANGED <<cfgVars, mutex, attempts, hpc, HeartbeatFailTimes, probeLog,
                   readVars, dlVars, now>>

\* SendMessage itself counting a failed write in HeartbeatFailTimes, whoever
\* the caller is.
WriteMessageCounted(c, ok) ==
    /\ spc[c] = "WriteMessage"
    /\ attempts' = [attempts EXCEPT ![c] = @ + 1]
    /\ serr' = [serr EXCEPT ![c] = IF ok THEN "nil" ELSE "writeErr"]
    /\ spc' = [spc EXCEPT ![c] = "Unlock"]
    /\ HeartbeatFailTimes' = IF ok THEN HeartbeatFailTimes ELSE HeartbeatFailTimes + 1
    /\ UNCHANGED <<cfgVars, mutex, hpc, probeLog, probeUnwritten, readVars, dlVars, now>>

\* s.Conn.WriteMessage(messageType, []byte(message))
WriteMessage(c, ok) ==
    /\ spc[c] = "WriteMessage"
    /\ attempts' = [attempts EXCEPT ![c] = @ + 1]
    /\ serr' = [serr EXCEPT ![c] = IF ok THEN "nil" ELSE "writeErr"]
    /\ spc' = [spc EXCEPT ![c] = "Unlock"]
    /\ UNCHANGED <<cfgVars, mutex, hbVars, readVars, dlVars, now>>

\* s.Unlock() written as the last statement instead of deferred: the error
\* returns leave without it.
UnlockOnSuccessOnly(c) ==
    /\ spc[c] = "Unlock"
    /\ mutex' = IF serr[c] = "nil" THEN mutex \ {c} ELSE mutex
    /\ spc' = [spc EXCEPT ![c] = "idle"]
    /\ attempts' = [attempts EXCEPT ![c] = 0]
    /\ serr' = IF c = Heartbeat THEN serr ELSE [serr EXCEPT ![c] = "nil"]
    /\ hpc' = IF c = Heartbeat THEN "check" ELSE hpc
    /\ UNCHANGED <<cfgVars, HeartbeatFailTimes, probeLog, probeUnwritten, readVars, dlVars, now>>

\* The deferred s.Unlock() and the return: the call frame is gone; the
\* heartbeat keeps the error it got back to inspect it, application code is
\* free to do anything with it.
Unlock(c) ==
    /\ spc[c] = "Unlock"
    /\ mutex' = mutex \ {c}
    /\ spc' = [spc EXCEPT ![c] = "idle"]
    /\ attempts' = [attempts EXCEPT ![c] = 0]
    /\ serr' = IF c = Heartbeat THEN serr ELSE [serr EXCEPT ![c] = "nil"]
    /\ hpc' = IF c = Heartbeat THEN "check" ELSE hpc
    /\ UNCHANGED <<cfgVars, HeartbeatFailTimes, probeLog, probeUnwritten, readVars, dlVars, now>>

\* ---------------------------------------------------------------- heartbeat
\* ticker := time.NewTicker(pingPeriod);
\* s.Conn.SetReadDeadline(time.Now().Add(s.option.readDeadline))
HbSetReadDeadline ==
    /\ hpc = "start"
    /\ connReadDeadline' = At(now + option.readDeadline)
    /\ hpc' = "SetPongHandler"
    /\ UNCHANGED <<cfgVars, sendVars, HeartbeatFailTimes, probeLog, probeUnwritten, readVars,
                   pongHandler, ponged, now>>

\* s.Conn.SetPongHandler(func(receivedPong string) error {...})
HbSetPongHandler ==
    /\ hpc = "SetPongHandler"
    /\ pongHandler' = TRUE
    /\ hpc' = "select"
    /\ UNCHANGED <<cfgVars, sendVars, HeartbeatFailTimes, probeLog, probeUnwritten, readVars,
                   connReadDeadline, ponged, now>>

\* A ticker case that first looks whether ReadPump has returned and sends no
\* probe once it has.
HbTickUnlessReadDone ==
    /\ hpc = "select"
    /\ rpc # "done"
    /\ Len(probeLog) < MaxProbes
    /\ hpc' = "SendMessage"
    /\ Call(Heartbeat)
    /\ UNCHANGED <<cfgVars, mutex, HeartbeatFailTimes, probeLog, probeUnwritten,
                   readVars, dlVars, now>>

\* case <-ticker.C: the heartbeat calls s.SendMessage(websocket.PingMessage, pingMsg)
HbTick ==
    /\ hpc = "select"
    /\ Len(probeLog) < MaxProbes
    /\ hpc' = "SendMessage"
    /\ Call(Heartbeat)
    /\ UNCHANGED <<cfgVars, mutex, HeartbeatFailTimes, probeLog, probeUnwritten,
                   readVars, dlVars, now>>

\* The success branch decrementing without its "> 0" test.
FailTimesAfterNoFloor(f, failed) == IF failed THEN f + 1 ELSE f - 1

\* The success branch clearing the counter instead of decrementing it.
FailTimesAfterReset(f, failed) == IF failed THEN f + 1 ELSE 0

\* The counter after a probe whose SendMessage returned an error (failed) or nil.
FailTimesAfter(f, failed) ==
    IF failed THEN f + 1
    ELSE IF f > 0 THEN f - 1 ELSE f

\* The threshold test written ">=" instead of ">".
HbGivesUpAtMax(f, failed) == failed /\ f >= option.heartbeatFailMaxTimes

\* After a failed probe the loop returns iff the counter exceeds the maximum.
HbGivesUp(f, failed) == failed /\ f > option.heartbeatFailMaxTimes

\* The body of the select case closing the connection before it returns.
HbCheckCloses ==
    /\ hpc = "check"
    /\ LET failed == serr[Heartbeat] # "nil"
           f == FailTimesAfter(HeartbeatFailTimes, failed)
       IN  /\ HeartbeatFailTimes' = f
           /\ probeLog' = Append(probeLog, IF failed THEN "fail" ELSE "ok")
           /\ hpc' = IF HbGivesUp(f, failed) THEN "stopped" ELSE "select"
           /\ Conn' = IF HbGivesUp(f, failed) THEN "closed" ELSE Conn
    /\ serr' = [serr EXCEPT ![Heartbeat] = "nil"]
    /\ UNCHANGED <<client, opts, option, Send, mutex, spc, attempts, probeUnwritten,
                   readVars, dlVars, now>>

\* The body of the select case once SendMessage has returned.
HbCheck ==
    /\ hpc = "check"
    /\ LET failed == serr[Heartbeat] # "nil"
           f == FailTimesAfter(HeartbeatFailTimes, failed)
       IN  /\ HeartbeatFailTimes' = f
           /\ probeLog' = Append(probeLog, IF failed THEN "fail" ELSE "ok")
           /\ hpc' = IF HbGivesUp(f, failed) THEN "stopped" ELSE "select"
    /\ serr' = [serr EXCEPT ![Heartbeat] = "nil"]
    /\ UNCHANGED <<cfgVars, mutex, spc, attempts, probeUnwritten, readVars, dlVars, now>>

\* The pong handler pushing the deadline on from where it stood instead of
\* from time.Now().
PongHandlerFromOldDeadline ==
    /\ rpc = "ReadMessage"
    /\ pongHandler
    /\ connReadDeadline' = IF option.readDeadline > 0
                           THEN At(connReadDeadline.at + option.readDeadline)
                           ELSE ZeroTime
    /\ ponged' = TRUE
    /\ UNCHANGED <<cfgVars, sendVars, hbVars, readVars, pongHandler, now>>

\* The pong handler closure, run by the reading goroutine inside ReadMessage
\* when a pong frame arrives after the closure was installed.
PongHandler ==
    /\ rpc = "ReadMessage"
    /\ pongHandler
    /\ connReadDeadline' = IF option.readDeadline > 0
                           THEN At(now + option.readDeadline)
                           ELSE ZeroTime
    /\ ponged' = TRUE
    /\ UNCHANGED <<cfgVars, sendVars, hbVars, readVars, pongHandler, now>>

\* ----------------------------------------------------------------- ReadPump
\* The handler calls, with their argument: the frame for OnMessage (the peer's
\* k-th frame is k), the error for OnError.
OnMessageCall(data) == [fn |-> "OnMessage", data |-> data, err |-> ""]
OnErrorCall(err) == [fn |-> "OnError", data |-> 0, err |-> err]
OnCloseCall == [fn |-> "OnClose", data |-> 0, err |-> ""]

\* The read deadline has passed.
ReadTimedOut == ~connReadDeadline.zero /\ now >= connReadDeadline.at

\* The application calls ReadPump(handler) on the client it was given.
ReadPump ==
    /\ client = "client"
    /\ rpc = "idle"
    /\ rpc' = "ReadMessage"
    /\ UNCHANGED <<cfgVars, sendVars, hbVars, recvd, panicking, calls, executing,
                   dlVars, now>>

\* A handler method is called: the call is logged and the callback begins.
Dispatch(call) ==
    /\ calls' = Append(calls, call)
    /\ executing' = executing + 1

\* The deferred func with recover() # nil: handler.OnError(errors.New(...)) is
\* called; handler.OnClose() follows when it returns.
Recover ==
    /\ panicking' = TRUE
    /\ Dispatch(OnErrorCall("panic"))
    /\ rpc' = "deferOnError"

\* The callback started with "go handler.OnMessage(mt, data)": the loop does
\* not wait for it.
ReadMessageOkAsync ==
    /\ rpc = "ReadMessage"
    /\ Len(recvd) < MaxFrames
    /\ recvd' = Append(recvd, Len(recvd) + 1)
    /\ Dispatch(OnMessageCall(Len(recvd) + 1))
    /\ rpc' = "ReadMessage"
    /\ UNCHANGED <<cfgVars, sendVars, hbVars, panicking, dlVars, now>>

\* s.Conn.ReadMessage() returns the peer's next frame, the else branch calls
\* handler.OnMessage(mt, data) and waits for it.
ReadMessageOk ==
    /\ rpc = "ReadMessage"
    /\ Len(recvd) < MaxFrames
    /\ recvd' = Append(recvd, Len(recvd) + 1)
    /\ Dispatch(OnMessageCall(Len(recvd) + 1))
    /\ rpc' = "OnMessage"
    /\ UNCHANGED <<cfgVars, sendVars, hbVars, panicking, dlVars, now>>

\* handler.OnMessage returns: the loop reads again.
OnMessageReturn ==
    /\ rpc = "OnMessage"
    /\ executing' = executing - 1
    /\ rpc' = "ReadMessage"
    /\ UNCHANGED <<cfgVars, sendVars, hbVars, recvd, panicking, calls, dlVars, now>>

\* handler.OnMessage panics: the callback is unwound and the deferred func runs.
OnMessagePanic ==
    /\ rpc = "OnMessage"
    /\ panicking' = TRUE
    /\ calls' = Append(calls, OnErrorCall("panic"))
    /\ executing' = executing
    /\ rpc' = "deferOnError"
    /\ UNCHANGED <<cfgVars, sendVars, hbVars, recvd, dlVars, now>>

\* A timeout treated as temporary: the loop reads again without telling the
\* handler.
ReadMessageErrRetriesTimeout(kind) ==
    /\ rpc = "ReadMessage"
    /\ kind = "timeout" => ReadTimedOut
    /\ IF kind = "timeout"
       THEN UNCHANGED <<rpc, calls, executing>>
       ELSE Dispatch(OnErrorCall(kind)) /\ rpc' = "OnError"
    /\ UNCHANGED <<cfgVars, sendVars, hbVars, recvd, panicking, dlVars, now>>

\* s.Conn.ReadMessage() returns an error: the peer closed or broke the
\* connection ("read"), or the read deadline passed ("timeout");
\* handler.OnError(err) is called.
ReadMessageErr(kind) ==
    /\ rpc = "ReadMessage"
    /\ kind = "timeout" => ReadTimedOut
    /\ Dispatch(OnErrorCall(kind))
    /\ rpc' = "OnError"
    /\ UNCHANGED <<cfgVars, sendVars, hbVars, recvd, panicking, dlVars, now>>

\* The error branch without its break: the loop reads again.
OnErrorReturnNoBreak ==
    /\ rpc = "OnError"
    /\ executing' = executing - 1
    /\ rpc' = "ReadMessage"
    /\ UNCHANGED <<cfgVars, sendVars, hbVars, recvd, panicking, calls, dlVars, now>>

\* The error branch closing the connection before it breaks.
OnErrorReturnClose ==
    /\ rpc = "OnError"
    /\ executing' = executing - 1
    /\ rpc' = "done"
    /\ Conn' = "closed"
    /\ UNCHANGED <<client, opts, option, Send, sendVars, hbVars, recvd, panicking,
                   calls, dlVars, now>>

\* handler.OnError returns; break leaves the loop, the deferred func finds
\* recover() = nil and ReadPump returns.
OnErrorReturn ==
    /\ rpc = "OnError"
    /\ executing' = executing - 1
    /\ rpc' = "done"
    /\ UNCHANGED <<cfgVars, sendVars, hbVars, recvd, panicking, calls, dlVars, now>>

\* handler.OnError (line 84) panics.
OnErrorPanic ==
    /\ rpc = "OnError"
    /\ panicking' = TRUE
    /\ calls' = Append(calls, OnErrorCall("panic"))
    /\ executing' = executing
    /\ rpc' = "deferOnError"
    /\ UNCHANGED <<cfgVars, sendVars, hbVars, recvd, dlVars, now>>

\* s.Conn.ReadMessage() itself panics.
ReadMessagePanic ==
    /\ rpc = "ReadMessage"
    /\ Recover
    /\ UNCHANGED <<cfgVars, sendVars, hbVars, recvd, dlVars, now>>

\* The deferred func without its handler.OnClose() call.
DeferWithoutOnClose ==
    /\ rpc = "deferOnError"
    /\ executing' = executing - 1
    /\ rpc' = "done"
    /\ UNCHANGED <<cfgVars, sendVars, hbVars, recvd, panicking, calls, dlVars, now>>

\* In the deferred func handler.OnError returns and handler.OnClose() is called.
DeferOnClose ==
    /\ rpc = "deferOnError"
    /\ calls' = Append(calls, OnCloseCall)
    /\ executing' = executing
    /\ rpc' = "deferOnClose"
    /\ UNCHANGED <<cfgVars, sendVars, hbVars, recvd, panicking, dlVars, now>>

\* handler.OnClose returns and so does ReadPump.
DeferReturn ==
    /\ rpc = "deferOnClose"
    /\ executing' = executing - 1
    /\ rpc' = "done"
    /\ UNCHANGED <<cfgVars, sendVars, hbVars, recvd, panicking, calls, dlVars, now>>

\* --------------------------------------------------------------------- time
Advance ==
    /\ now < MaxTime
    /\ now' = now + 1
    /\ UNCHANGED <<cfgVars, sendVars, hbVars, readVars, dlVars>>

\* ------------------------------------------------------------ specifications
SendStep ==
    \E c \in Callers :
        \/ Lock(c)
        \/ \E ok \in BOOLEAN : SetWriteDeadline(c, ok)
        \/ \E ok \in BOOLEAN : WriteMessage(c, ok)
        \/ Unlock(c)

HeartbeatStep == HbSetReadDeadline \/ HbSetPongHandler \/ HbTick \/ HbCheck

ReadStep ==
    \/ ReadPump
    \/ ReadMessageOk
    \/ \E kind \in {"read", "timeout"} : ReadMessageErr(kind)
    \/ ReadMessagePanic
    \/ OnMessageReturn
    \/ OnMessagePanic
    \/ OnErrorReturn
    \/ OnErrorPanic
    \/ DeferOnClose
    \/ DeferReturn

Next ==
    \/ \E o \in SessionOpts, upgraded \in BOOLEAN : NewSocket(o, upgraded)
    \/ \E c \in AppSenders : AppSend(c)
    \/ SendStep
    \/ HeartbeatStep
    \/ PongHandler
    \/ ReadStep
    \/ Advance

Spec == Init /\ [][Next]_vars

\* Option resolution alone, over every mutator list up to MaxOpts long.
NextOpt == \E o \in OptSeqs, upgraded \in BOOLEAN : NewSocket(o, upgraded)

SpecOpt == Init /\ [][NextOpt]_vars

\* The read side with a peer that goes quiet: frames and pongs reach the
\* connection only while its read deadline has not passed (a read of the
\* socket after the deadline fails before any byte is taken), the peer does
\* not close, and the ticker has not fired yet. A read blocked past its
\* deadline is woken by the deadline timer, and the handler's callbacks return.
FrameInTime == ~ReadTimedOut /\ ReadMessageOk
PongInTime == ~ReadTimedOut /\ PongHandler

NextQuiet ==
    \/ \E o \in SessionOpts, upgraded \in BOOLEAN : NewSocket(o, upgraded)
    \/ HbSetReadDeadline
    \/ HbSetPongHandler
    \/ ReadPump
    \/ FrameInTime
    \/ PongInTime
    \/ ReadMessageErr("timeout")
    \/ OnMessageReturn
    \/ OnErrorReturn
    \/ Advance

SpecQuiet ==
    /\ Init
    /\ [][NextQuiet]_vars
    /\ WF_vars(ReadMessageErr("timeout"))
    /\ WF_vars(OnErrorReturn)

\* case <-ticker.C, for a session followed over MaxLongProbes probes.
HbTickLong ==
    /\ hpc = "select"
    /\ Len(probeLog) < MaxLongProbes
    /\ hpc' = "SendMessage"
    /\ Call(Heartbeat)
    /\ UNCHANGED <<cfgVars, mutex, HeartbeatFailTimes, probeLog, probeUnwritten,
                   readVars, dlVars, now>>

\* The heartbeat alone: the application neither reads nor sends, and the
\* session is followed over more probes.
NextProbes ==
    \/ \E o \in SessionOpts, upgraded \in BOOLEAN : NewSocket(o, upgraded)
    \/ HbSetReadDeadline
    \/ HbSetPongHandler
    \/ HbTickLong
    \/ SendStep
    \/ HbCheck

SpecProbes == Init /\ [][NextProbes]_vars

\* The write path alone, under a fair scheduler: a goroutine inside
\* SendMessage that can take its next step takes it (each connection call
\* returns), and a goroutine blocked in s.Lock() is not passed over for ever
\* while the lock keeps being released (sync.Mutex hands the lock to a waiter
\* that has starved).
NextSend ==
    \/ \E o \in SessionOpts, upgraded \in BOOLEAN : NewSocket(o, upgraded)
    \/ \E c \in AppSenders : AppSend(c)
    \/ SendStep
    \/ HeartbeatStep

SendFairness ==
    \A c \in Callers :
        /\ SF_vars(Lock(c))
        /\ WF_vars(\E ok \in BOOLEAN : SetWriteDeadline(c, ok))
        /\ WF_vars(\E ok \in BOOLEAN : WriteMessage(c, ok))
        /\ WF_vars(Unlock(c))

SpecSendFair == Init /\ [][NextSend]_vars /\ SendFairness

\* ------------------------------------------------------------------- claims
Max(a, b) == IF a > b THEN a ELSE b
Last(q) == q[Len(q)]
threshold == option.heartbeatFailMaxTimes

\* Callers between the start of SetWriteDeadline and the return of SendMessage.
InFlight == {c \in Callers : spc[c] \in {"SetWriteDeadline", "WriteMessage", "Unlock"}}

\* C1: at most one SendMessage caller is ever between the start of
\* SetWriteDeadline/WriteMessage and the return of SendMessage.
C1_OneWriteInFlight == Cardinality(InFlight) <= 1

\* One caller is writing while another waits for the lock.
C1_Witness ==
    \E c \in Callers, d \in Callers :
        c # d /\ spc[c] = "WriteMessage" /\ spc[d] = "Lock"

\* Every completed probe failed; every completed probe failed in its write.
AllFailed == \A i \in 1..Len(probeLog) : probeLog[i] = "fail"
AllWritesFailed == AllFailed /\ ~probeUnwritten

\* C2 as stated: when every probe write failed, a stopped monitor has made
\* exactly maxHeartbeatFailures + 1 probes (each with one write attempt), and
\* it is not inside another probe.
C2_ExactlyMaxPlusOne ==
    (hpc = "stopped" /\ AllWritesFailed) =>
        (Len(probeLog) = threshold + 1 /\ spc[Heartbeat] = "idle")

\* C2 (amended): when every probe failed (in its write or before it), a
\* stopped monitor has made exactly max(maxHeartbeatFailures, 0) + 1 probes
\* (one probe for a negative maximum), and once stopped it stays stopped and
\* never sends another probe.
C2_StopsAfterMaxPlusOne ==
    /\ [](( hpc = "stopped" /\ AllFailed) =>
            Len(probeLog) = Max(threshold, 0) + 1)
    /\ [][hpc = "stopped" =>
            (hpc' = "stopped" /\ probeLog' = probeLog /\ spc'[Heartbeat] = "idle")]_vars

\* Threshold 2, three probes whose writes failed, monitor stopped.
C2_Witness ==
    /\ hpc = "stopped"
    /\ ~probeUnwritten
    /\ threshold = 2
    /\ probeLog = <<"fail", "fail", "fail">>

\* C3: the failure counter is never negative.
C3_CounterNonNegative == HeartbeatFailTimes >= 0

\* Two successful probes at counter 0, with ReadPump and an application
\* SendMessage under way.
C3_Witness ==
    /\ probeLog = <<"ok", "ok">>
    /\ HeartbeatFailTimes = 0
    /\ rpc = "OnMessage"
    /\ \E c \in AppSenders : spc[c] = "WriteMessage"

\* The log is F failures followed by K successes.
FailsThenOks(F, K) ==
    /\ Len(probeLog) = F + K
    /\ \A i \in 1..Len(probeLog) : probeLog[i] = IF i <= F THEN "fail" ELSE "ok"

\* C4: a failed probe adds exactly 1 to the counter, a successful one subtracts
\* exactly 1 unless the counter is 0; so F failures (F within the threshold)
\* followed by K successes leave the counter at max(F - K, 0).
C4_RecoveryDampening ==
    /\ [][probeLog' # probeLog =>
            HeartbeatFailTimes' =
                IF Last(probeLog') = "fail" THEN HeartbeatFailTimes + 1
                ELSE IF HeartbeatFailTimes = 0 THEN 0
                ELSE HeartbeatFailTimes - 1]_vars
    /\ [](\A F \in 0..Len(probeLog) :
            (F <= threshold /\ FailsThenOks(F, Len(probeLog) - F)) =>
                HeartbeatFailTimes = Max(F - (Len(probeLog) - F), 0))

\* Two failures then one success: one more success is needed to recover.
C4_Witness ==
    /\ probeLog = <<"fail", "fail", "ok">>
    /\ HeartbeatFailTimes = 1

\* The documented defaults.
Default(field) ==
    CASE field = "pingPeriod" -> DefaultPingPeriod
      [] field = "writeDeadline" -> DefaultWriteDeadline
      [] field = "readDeadline" -> DefaultReadDeadline
      [] field = "writeReadBufferSize" -> DefaultWriteReadBufferSize
      [] field = "heartbeatFailMaxTimes" -> DefaultHeartbeatFailMaxTimes

\* The positions in the mutator list that set the field.
Setters(field) == {i \in 1..Len(opts) : opts[i].field = field}
LastSetter(field) == CHOOSE i \in Setters(field) : \A j \in Setters(field) : j <= i

\* C5: once configuration is resolved, a field no mutator set equals its
\* default and a field a mutator set holds the value the (last) mutator gave
\* it, whatever that value is.
C5_DefaultsOnlyForUnset ==
    client = "client" =>
        \A field \in IntFields :
            IF Setters(field) = {}
            THEN option[field] = Default(field)
            ELSE option[field] = opts[LastSetter(field)].n

\* C6: in a session constructed with the read deadline option set to 0, once
\* the pong handler has processed a pong the read deadline is cleared, so no
\* read can time out.
C6_ZeroReadDeadlineCleared ==
    ( /\ client = "client"
      /\ Setters("readDeadline") # {}
      /\ opts[LastSetter("readDeadline")].n = 0
      /\ ponged )
    => (connReadDeadline = ZeroTime /\ ~ReadTimedOut)

\* The frames handed to OnMessage, in call order.
IsReadError(call) == call.fn = "OnError" /\ call.err \in {"read", "timeout"}
OnMessageCalls == SelectSeq(calls, LAMBDA call : call.fn = "OnMessage")
Delivered == [i \in 1..Len(OnMessageCalls) |-> OnMessageCalls[i].data]
ReadErrorCalls == SelectSeq(calls, IsReadError)

\* C7: OnMessage is called once per frame read, in the order read; a read
\* error makes exactly one OnError call, no OnMessage call follows it, and
\* ReadPump returns once that OnError call has returned.
C7_OrderedThenOneOnError ==
    /\ Delivered = recvd
    /\ Len(ReadErrorCalls) <= 1
    /\ \A i \in 1..Len(calls) : \A j \in 1..Len(calls) :
            (i < j /\ IsReadError(calls[i])) => calls[j].fn # "OnMessage"
    /\ rpc = "OnError" => (Len(ReadErrorCalls) = 1 /\ IsReadError(Last(calls)))
    /\ (rpc = "done" /\ ~panicking) =>
            (Len(ReadErrorCalls) = 1 /\ IsReadError(Last(calls)) /\ executing = 0)

\* Two frames delivered in order, then a read error, and ReadPump has returned.
C7_Witness ==
    /\ rpc = "done"
    /\ calls = <<OnMessageCall(1), OnMessageCall(2), OnErrorCall("read")>>

\* C8: a panic in the read loop (in ReadMessage or in a handler call) is
\* recovered: OnError and then OnClose are called, in that order, and ReadPump
\* returns; OnClose is called in no other case, so never when ReadPump ends on
\* a read error without a panic.
C8_FaultBoundary ==
    /\ panicking => rpc \in {"deferOnError", "deferOnClose", "done"}
    /\ rpc = "deferOnError" => Last(calls) = OnErrorCall("panic")
    /\ (panicking /\ rpc \in {"deferOnClose", "done"}) =>
            /\ Len(calls) >= 2
            /\ calls[Len(calls) - 1] = OnErrorCall("panic")
            /\ Last(calls) = OnCloseCall
    /\ ~panicking => \A i \in 1..Len(calls) : calls[i].fn # "OnClose"
    /\ \A i \in 1..Len(calls) :
            calls[i].fn = "OnClose" => (i > 1 /\ calls[i - 1] = OnErrorCall("panic"))

\* OnMessage panicked on the first frame; OnError, OnClose followed and
\* ReadPump returned.
C8_Witness ==
    /\ rpc = "done"
    /\ panicking
    /\ calls = <<OnMessageCall(1), OnErrorCall("panic"), OnCloseCall>>

\* C9: no two handler callbacks of the session execute at the same time.
C9_CallbacksSequential == executing <= 1

\* The second OnMessage callback is executing while the heartbeat writes a
\* probe and an application caller waits for the lock.
C9_Witness ==
    /\ executing = 1
    /\ rpc = "OnMessage"
    /\ Len(calls) = 2
    /\ spc[Heartbeat] = "WriteMessage"
    /\ \E c \in AppSenders : spc[c] = "Lock"

\* C10 as stated: after a read error or a recovered panic has ended ReadPump,
\* or the failure counter has exceeded its threshold, the session is destroyed:
\* the connection is closed and the heartbeat task is stopped.
C10_SessionDestroyed ==
    (rpc = "done" \/ hpc = "stopped") => (Conn = "closed" /\ hpc = "stopped")

\* C10 (amended): the session never closes its connection; the step that ends
\* ReadPump (read error or recovered panic) leaves the heartbeat task as it
\* was, and the step that stops the heartbeat task leaves ReadPump as it was.
C10_NoTeardown ==
    /\ [](client = "client" => Conn = "open")
    /\ [][(rpc # "done" /\ rpc' = "done") => (hpc' = hpc /\ Conn' = Conn)]_vars
    /\ [][(hpc # "stopped" /\ hpc' = "stopped") => (rpc' = rpc /\ Conn' = Conn)]_vars

\* ReadPump has ended on a read error and the heartbeat has given up: the
\* connection is still open; elsewhere the heartbeat is still probing after
\* ReadPump ended.
C10_Witness ==
    /\ rpc = "done"
    /\ hpc = "stopped"
    /\ Conn = "open"

\* The heartbeat goroutine has done nothing yet.
HeartbeatUntouched ==
    /\ connReadDeadline = ZeroTime
    /\ ~pongHandler
    /\ probeLog = <<>>
    /\ HeartbeatFailTimes = 0
    /\ spc[Heartbeat] = "idle"

\* C11: when the upgrade fails NewSocket returns the error and no client: no
\* heartbeat goroutine exists, Conn is nil and Send was not made. A heartbeat
\* goroutine exists only for a client whose upgrade succeeded, and it is at
\* its first statement only before it has done anything (it is never started
\* a second time).
C11_NoSessionOnUpgradeFailure ==
    /\ client = "err" => (hpc = "none" /\ Conn = "nil" /\ Send.nil /\ HeartbeatUntouched)
    /\ hpc # "none" <=> client = "client"
    /\ client = "client" <=> (Conn = "open" /\ ~Send.nil)
    /\ hpc \in {"none", "start"} => HeartbeatUntouched

\* NewSocket has returned the upgrade error.
C11_Witness == client = "err" /\ opts # <<>> /\ hpc = "none" /\ Conn = "nil"

\* C12: SendMessage returns the first error and never retries. A call about to
\* return the deadline error has attempted no write; a call about to return
\* the write error or nil has attempted exactly one write; a call that has not
\* reached its return has no error yet and no write behind it; no call ever
\* attempts more than one write.
C12_FirstErrorNoRetry ==
    \A c \in Callers :
        /\ attempts[c] <= 1
        /\ spc[c] = "Unlock" =>
               /\ serr[c] = "deadlineErr" => attempts[c] = 0
               /\ serr[c] \in {"writeErr", "nil"} => attempts[c] = 1
        /\ spc[c] \in {"Lock", "SetWriteDeadline", "WriteMessage"} =>
               (serr[c] = "nil" /\ attempts[c] = 0)

\* An application call returns the deadline error while the heartbeat's call
\* returns the write error.
C12_Witness ==
    \E c \in AppSenders :
        /\ spc[c] = "Unlock" /\ serr[c] = "deadlineErr" /\ attempts[c] = 0
        /\ hpc = "check" /\ serr[Heartbeat] = "writeErr"

\* ReadPump has returned and the last handler call it made is OnError with the
\* timeout error.
EndedByTimeout ==
    /\ rpc = "done"
    /\ calls # <<>>
    /\ Last(calls) = OnErrorCall("timeout")

\* C13: with a positive configured read deadline, whenever the read deadline
\* has passed with no pong having moved it and ReadPump is blocked in
\* ReadMessage, that read fails with the timeout error, OnError is called
\* with it and ReadPump terminates.
C13_SilentPeerTimesOut ==
    (option.readDeadline > 0 /\ rpc = "ReadMessage" /\ ReadTimedOut) ~> EndedByTimeout

\* ReadPump delivered a frame and processed a pong, then the peer went quiet
\* and ReadPump ended on the timeout.
C13_Witness ==
    /\ option.readDeadline > 0
    /\ ponged
    /\ recvd # <<>>
    /\ EndedByTimeout

\* The longest run of consecutive failed probes in a log, and the run of
\* failed probes the log ends with.
FailRuns(log) ==
    {r \in (1..Len(log)) \X (1..Len(log)) :
        r[1] <= r[2] /\ \A k \in r[1]..r[2] : log[k] = "fail"}
MaxFailRun(log) ==
    IF FailRuns(log) = {} THEN 0
    ELSE LET r == CHOOSE r \in FailRuns(log) :
                      \A q \in FailRuns(log) : q[2] - q[1] <= r[2] - r[1]
         IN  r[2] - r[1] + 1
TrailingFailRun(log) ==
    Cardinality({i \in 1..Len(log) : \A k \in i..Len(log) : log[k] = "fail"})

\* The count a probe log leaves: one up for a failure, one down, not below
\* zero, for a success.
RECURSIVE Dampened(_)
Dampened(log) ==
    IF log = <<>> THEN 0
    ELSE LET before == Dampened(SubSeq(log, 1, Len(log) - 1))
         IN  IF Last(log) = "fail" THEN before + 1 ELSE Max(before - 1, 0)

\* C14 as stated: the monitor stops only when more than maxHeartbeatFailures
\* probes in a row have failed.
C14_StopsOnlyOnConsecutiveRun ==
    hpc = "stopped" => MaxFailRun(probeLog) > threshold

\* C14, amended: the monitor tracks the dampened count of its probe log; it
\* has stopped exactly when a failed probe left that count above the
\* threshold; more than max(threshold, 0) failures in a row always stop it.
C14_StopsOnDampenedCount ==
    /\ HeartbeatFailTimes = Dampened(probeLog)
    /\ hpc = "stopped" <=>
           (probeLog # <<>> /\ Last(probeLog) = "fail" /\ Dampened(probeLog) > threshold)
    /\ TrailingFailRun(probeLog) > Max(threshold, 0) => hpc = "stopped"

\* Threshold 2: fail, fail, ok, fail, fail stops the monitor, no run of
\* failures being longer than 2.
C14_Witness ==
    /\ threshold = 2
    /\ probeLog = <<"fail", "fail", "ok", "fail", "fail">>
    /\ ~probeUnwritten
    /\ hpc = "stopped"

\* ReadPump returned after a read error or a caught fault.
ReadEndedOnError == \E i \in 1..Len(calls) : calls[i].fn = "OnError"

\* After ReadPump has returned, a waiting heartbeat still sends its probe on
\* the next tick.
ProbesAfterReadPump ==
    (rpc = "done" /\ hpc = "select" /\ Len(probeLog) < MaxProbes) => ENABLED HbTick

\* C15 as stated: the heartbeat loop has terminated if and only if the
\* failure counter exceeds the threshold; ReadPump returns only after a read
\* error or caught fault; the heartbeat goes on probing after ReadPump returned.
C15_StoppedIffCounterExceeds ==
    /\ client = "client" => (hpc = "stopped" <=> HeartbeatFailTimes > threshold)
    /\ rpc = "done" => ReadEndedOnError
    /\ ProbesAfterReadPump

\* C15, amended: the heartbeat loop has terminated if and only if a failed
\* probe left the failure counter above the threshold (the counter is compared
\* only after a failure); the rest as stated.
C15_StoppedIffFailedProbeExceeds ==
    /\ client = "client" =>
           (hpc = "stopped" <=>
                (probeLog # <<>> /\ Last(probeLog) = "fail" /\ HeartbeatFailTimes > threshold))
    /\ rpc = "done" => ReadEndedOnError
    /\ ProbesAfterReadPump

\* ReadPump has returned while the heartbeat, one probe done, waits for its
\* next tick.
C15_Witness ==
    /\ rpc = "done"
    /\ hpc = "select"
    /\ Len(probeLog) = 1
    /\ threshold > 0

\* C16: HeartbeatFailTimes changes only in the step where the heartbeat
\* goroutine, its probe returned, updates the counter and logs the probe;
\* every other step (an application SendMessage that succeeds or fails, every
\* ReadPump step, the pong handler) leaves it unchanged, and each such update
\* is by one.
C16_OnlyHeartbeatWritesCounter ==
    [][HeartbeatFailTimes' # HeartbeatFailTimes =>
          /\ hpc = "check"
          /\ hpc' \in {"select", "stopped"}
          /\ probeLog' # probeLog
          /\ spc' = spc
          /\ rpc' = rpc
          /\ HeartbeatFailTimes' \in {HeartbeatFailTimes - 1, HeartbeatFailTimes + 1}]_vars

\* An application SendMessage is returning the write error and ReadPump has
\* returned, and the counter still shows the heartbeat's one failed probe.
C16_Witness ==
    /\ \E c \in AppSenders : spc[c] = "Unlock" /\ serr[c] = "writeErr"
    /\ rpc = "done"
    /\ probeLog = <<"fail">>
    /\ HeartbeatFailTimes = 1

\* The read deadline is some past or present time plus the configured read
\* deadline.
DeadlineFromSomeNow ==
    /\ ~connReadDeadline.zero
    /\ \E t \in 0..now : connReadDeadline.at = t + option.readDeadline

\* The heartbeat goroutine is past its first two statements.
HeartbeatLooping == hpc \in {"select", "SendMessage", "check", "stopped"}

\* Before the first probe the read deadline was set to now + readDeadline and
\* the pong handler installed; with a positive readDeadline the deadline is
\* always such a sum.
C17_Armed ==
    /\ (HeartbeatLooping \/ probeLog # <<>> \/ spc[Heartbeat] # "idle") =>
           (pongHandler /\ HeartbeatLooping)
    /\ (hpc = "SetPongHandler" \/ HeartbeatLooping) =>
           ((~ponged \/ option.readDeadline > 0) => DeadlineFromSomeNow)

\* Only the heartbeat's first statement and the pong handler change the read
\* deadline, each to now + readDeadline; a frame delivered, a probe sent, a
\* SendMessage, a handler callback or the passing of time leave it unchanged.
C17_Moves ==
    /\ connReadDeadline' # connReadDeadline =>
           \/ /\ hpc = "start"
              /\ hpc' = "SetPongHandler"
              /\ connReadDeadline' = At(now + option.readDeadline)
           \/ /\ pongHandler
              /\ rpc = "ReadMessage"
              /\ ponged'
              /\ <<rpc, recvd, calls, spc, hpc, probeLog, now>>' =
                     <<rpc, recvd, calls, spc, hpc, probeLog, now>>
    /\ (ponged' /\ (~ponged \/ connReadDeadline' # connReadDeadline)
            /\ option.readDeadline > 0) =>
           connReadDeadline' = At(now + option.readDeadline)

ReadPumpStillReads ==
    (rpc = "ReadMessage" /\ Len(recvd) < MaxFrames) => ENABLED ReadMessageOk

\* Application code can still call SendMessage, and a call under way still
\* takes the free lock, sets its deadline and makes its write.
SendMessageStillWrites ==
    \A c \in AppSenders :
        /\ spc[c] = "idle" => ENABLED AppSend(c)
        /\ (spc[c] = "Lock" /\ mutex = {}) => ENABLED Lock(c)
        /\ spc[c] = "SetWriteDeadline" => ENABLED SetWriteDeadline(c, TRUE)
        /\ spc[c] = "WriteMessage" => ENABLED WriteMessage(c, TRUE)

\* C18: once the heartbeat has stopped on its threshold, no close call has
\* been made: the connection is open, the heartbeat holds no lock, the stop
\* left ReadPump where it was (running if it was running), and application
\* SendMessage calls still attempt their write.
C18_StopWithoutClose ==
    hpc = "stopped" =>
        /\ Conn = "open"
        /\ client = "client"
        /\ Heartbeat \notin mutex
        /\ ReadPumpStillReads
        /\ SendMessageStillWrites

\* The heartbeat has stopped; ReadPump, a frame delivered, is reading again
\* and an application SendMessage has just made its write.
C18_Witness ==
    /\ hpc = "stopped"
    /\ rpc = "ReadMessage"
    /\ recvd # <<>>
    /\ \E c \in AppSenders : spc[c] = "Unlock" /\ attempts[c] = 1 /\ serr[c] = "nil"

\* The counter against a non-negative threshold: never above threshold + 1,
\* at threshold + 1 exactly when the heartbeat has stopped, at most the
\* threshold while it runs.
C19_Bounded ==
    (client = "client" /\ threshold >= 0) =>
        /\ HeartbeatFailTimes <= threshold + 1
        /\ HeartbeatFailTimes = threshold + 1 <=> hpc = "stopped"
        /\ hpc # "stopped" => HeartbeatFailTimes <= threshold

\* C19: with a non-negative threshold the counter is at most
\* maxHeartbeatFailures + 1 in every reachable state, equals that exactly
\* when the heartbeat has stopped and is at most maxHeartbeatFailures while
\* it runs; once the heartbeat has stopped the counter never changes again.
C19_CounterBounded ==
    /\ []C19_Bounded
    /\ [][hpc = "stopped" =>
              (hpc' = "stopped" /\ HeartbeatFailTimes' = HeartbeatFailTimes)]_vars

\* Threshold 2: the heartbeat has stopped with the counter at 3 and an
\* application SendMessage has failed since.
C19_Witness ==
    /\ threshold = 2
    /\ hpc = "stopped"
    /\ HeartbeatFailTimes = 3
    /\ \E c \in AppSenders : spc[c] = "Unlock" /\ serr[c] = "writeErr"

\* The lock is held by exactly the callers between s.Lock() granted and their
\* return: a caller that has returned, on whichever path, does not hold it.
C20_HeldOnlyInFlight == mutex = InFlight

\* C20: SendMessage releases the write lock on every return path (success,
\* deadline error, write error), so the lock is never held by a caller that
\* has returned; and under the fair scheduler every SendMessage call,
\* application's or heartbeat's, eventually gets the lock and returns.
C20_LockReleasedAndGranted ==
    /\ []C20_HeldOnlyInFlight
    /\ \A c \in Callers : (spc[c] = "Lock") ~> (spc[c] = "idle")

\* One caller waits for the lock while the holder is about to return an error.
C20_Witness ==
    \E c \in Callers, d \in Callers :
        /\ spc[c] = "Lock"
        /\ spc[d] = "Unlock"
        /\ serr[d] # "nil"
        /\ mutex = {d}

====
